---- MODULE Spec2Model ----
(***************************************************************************)
(* VaultPlay Draw Worker (src/src/index.js, v1.3): the POST /startdraw     *)
(* handler from the body of its try block on: input validation, entropy,   *)
(* seed, scoring, ranking, audit bundle, bundle hash, publication to the   *)
(* external store with retryWithBackoff, and the HTTP response.            *)
(*                                                                         *)
(* Strings that the code inspects (entry codes, randomness) are sequences  *)
(* of one-character strings.  A nullable JavaScript value is Null (<<>>)   *)
(* or Some(v) (<<v>>).  SHA-256 is a small digest over character codes,    *)
(* written as two hexadecimal digits.                                      *)
(*                                                                         *)
(* commitFileToGitHub throws a ReferenceError while it builds the commit   *)
(* message (it reads `date`, bound in no enclosing scope), so the write    *)
(* and createGitHubRelease are never reached: the only requests the        *)
(* handler sends to the store are those of the existence check.  `store`   *)
(* records how the store would have answered the write and the release.    *)
(***************************************************************************)
EXTENDS Integers, Sequences, FiniteSets, TLC

\* ------------------------------------------------------------------ bounds
MaxEntries == 2

\* the longest list of scored entries ranked in isolation
MaxRanked == 3

\* ------------------------------------------------------- program constants
MAX_ENTRIES == 100000
MAX_ENTRY_CODE_LENGTH == 256
MAX_RANDOMNESS_LENGTH == 1024
MAX_COMPETITION_NAME_LENGTH == 256
MAX_COMPETITION_ID_LENGTH == 128
DefaultMaxRetries == 3
BackoffBaseMs == 1000

\* ------------------------------------------------------------ basic values
Null == <<>>
Some(v) == <<v>>
Val(x) == x[1]

\* --------------------------------------------------------------- strings
HexChars == {"0", "1", "2", "3", "4", "5", "6", "7", "8", "9",
             "a", "b", "c", "d", "e", "f", "A", "B", "C", "D", "E", "F"}

\* /^[0-9a-fA-F]+$/.test(s)
IsHexString(s) == Len(s) > 0 /\ \A k \in 1..Len(s) : s[k] \in HexChars

RECURSIVE TrimStart(_)
TrimStart(s) ==
    IF s # <<>> /\ Head(s) = " " THEN TrimStart(Tail(s)) ELSE s

RECURSIVE TrimEnd(_)
TrimEnd(s) ==
    IF s # <<>> /\ s[Len(s)] = " " THEN TrimEnd(SubSeq(s, 1, Len(s) - 1)) ELSE s

\* String.prototype.trim
Trim(s) == TrimEnd(TrimStart(s))

\* the code unit of a character (TextEncoder input)
CharCode(c) ==
    CASE c = " " -> 32
      [] c = "0" -> 48 [] c = "1" -> 49 [] c = "2" -> 50 [] c = "3" -> 51
      [] c = "4" -> 52 [] c = "5" -> 53 [] c = "6" -> 54 [] c = "7" -> 55
      [] c = "8" -> 56 [] c = "9" -> 57
      [] c = "A" -> 65 [] c = "B" -> 66 [] c = "C" -> 67 [] c = "D" -> 68
      [] c = "E" -> 69 [] c = "F" -> 70
      [] c = "a" -> 97 [] c = "b" -> 98 [] c = "c" -> 99 [] c = "d" -> 100
      [] c = "e" -> 101 [] c = "f" -> 102
      [] c = "n" -> 110 [] c = "q" -> 113 [] c = "z" -> 122
      [] c = ":" -> 58 [] c = "|" -> 124
      [] OTHER -> 63

\* ------------------------------------------------------------------ hasher
DigestSpace == 16 * 16

RECURSIVE DigestFrom(_, _)
DigestFrom(h, s) ==
    IF s = <<>> THEN h
    ELSE DigestFrom((h * 31 + CharCode(Head(s)) + 7) % DigestSpace, Tail(s))

\* crypto.subtle.digest over the encoded input
Digest(s) == DigestFrom(5, s)

HexDigit(n) ==
    CASE n = 0 -> "0" [] n = 1 -> "1" [] n = 2 -> "2" [] n = 3 -> "3"
      [] n = 4 -> "4" [] n = 5 -> "5" [] n = 6 -> "6" [] n = 7 -> "7"
      [] n = 8 -> "8" [] n = 9 -> "9" [] n = 10 -> "a" [] n = 11 -> "b"
      [] n = 12 -> "c" [] n = 13 -> "d" [] n = 14 -> "e" [] n = 15 -> "f"

HexValue(c) ==
    CASE c \in {"a", "A"} -> 10 [] c \in {"b", "B"} -> 11
      [] c \in {"c", "C"} -> 12 [] c \in {"d", "D"} -> 13
      [] c \in {"e", "E"} -> 14 [] c \in {"f", "F"} -> 15
      [] OTHER -> CharCode(c) - 48

\* byte.toString(16).padStart(2, "0")
ByteToHex(b) == <<HexDigit(b \div 16), HexDigit(b % 16)>>

\* computeSHA256Hex: the digest as a hexadecimal string
computeSHA256Hex(input) == ByteToHex(Digest(input))

RECURSIVE ParseHex(_, _)
ParseHex(acc, s) ==
    IF s = <<>> THEN acc ELSE ParseHex(acc * 16 + HexValue(Head(s)), Tail(s))

\* BigInt("0x" + scoreHex)
BigIntOfHex(hex) == ParseHex(0, hex)

\* ------------------------------------------------------------ localeCompare
\* primary (letter identity) and tertiary (case) collation weights
PrimaryWeight(c) ==
    CASE c = " " -> 1
      [] c \in {"0", "1", "2", "3", "4", "5", "6", "7", "8", "9"} -> 10 + HexValue(c)
      [] c \in {"a", "b", "c", "d", "e", "f", "A", "B", "C", "D", "E", "F"} -> 20 + HexValue(c)
      [] OTHER -> CharCode(c)

TertiaryWeight(c) == IF c \in {"A", "B", "C", "D", "E", "F"} THEN 1 ELSE 0

RECURSIVE CompareKeys(_, _)
CompareKeys(x, y) ==
    IF x = <<>> /\ y = <<>> THEN 0
    ELSE IF x = <<>> THEN 0 - 1
    ELSE IF y = <<>> THEN 1
    ELSE IF Head(x) < Head(y) THEN 0 - 1
    ELSE IF Head(x) > Head(y) THEN 1
    ELSE CompareKeys(Tail(x), Tail(y))

\* a.localeCompare(b): negative, zero or positive
localeCompare(a, b) ==
    LET pa == [k \in 1..Len(a) |-> PrimaryWeight(a[k])]
        pb == [k \in 1..Len(b) |-> PrimaryWeight(b[k])]
        ta == [k \in 1..Len(a) |-> TertiaryWeight(a[k])]
        tb == [k \in 1..Len(b) |-> TertiaryWeight(b[k])]
    IN  IF CompareKeys(pa, pb) # 0 THEN CompareKeys(pa, pb) ELSE CompareKeys(ta, tb)

\* ------------------------------------------------------------ request input
EntryCodes == {<<"A">>, <<"B">>, <<" ", "A">>}

Quizzes == {Null, Some([answerCorrect |-> Some(TRUE)]), Some([answerCorrect |-> Some(FALSE)])}

RawEntries == [entryCode : EntryCodes, quiz : Quizzes, email : {Null}]

Randomnesses == {<<>>, <<" ">>, <<"z">>, <<"a", "f">>}

Live == <<"l", "i", "v", "e">>

Test == <<"t", "e", "s", "t">>

Competitions ==
    {Null} \cup {Some([id |-> <<"c", "1">>, name |-> <<"C", "u", "p">>, mode |-> m]) : m \in {Live, Test}}

RandomnessSources == {Null, Some([autoFetch |-> TRUE, provider |-> "drand", round |-> Null])}

EntryLists == UNION {[1..n -> RawEntries] : n \in 0..MaxEntries}

\* the drawRound of the request: absent, or the string validateInput makes of it
DrawRounds == {Null, Some("7")}

Bodies ==
    [randomness : Randomnesses, entries : EntryLists, drawRound : {Null},
     competition : Competitions, randomnessSource : RandomnessSources]

Envs == [GITHUB_TOKEN : BOOLEAN]

\* ------------------------------------------------------------ validateInput
\* an error message: a template string and the value interpolated into it
Message(text, arg) == [text |-> text, arg |-> arg]

isAutoFetch(body) ==
    /\ body.randomnessSource # Null
    /\ Val(body.randomnessSource).autoFetch = TRUE
    /\ Val(body.randomnessSource).provider = "drand"

\* String.prototype.toLowerCase, on the letters the model uses
LowerChar(c) ==
    CASE c = "A" -> "a" [] c = "B" -> "b" [] c = "C" -> "c"
      [] c = "D" -> "d" [] c = "E" -> "e" [] c = "F" -> "f"
      [] c = "I" -> "i" [] c = "L" -> "l" [] c = "P" -> "p"
      [] c = "S" -> "s" [] c = "T" -> "t" [] c = "U" -> "u"
      [] c = "V" -> "v"
      [] OTHER -> c

toLowerCase(s) == [k \in 1..Len(s) |-> LowerChar(s[k])]

\* the randomness checks without the test of the hexadecimal form
ValidateRandomness_NoHexCheck(body) ==
    IF isAutoFetch(body) THEN Null
    ELSE IF body.randomness = <<>>
         THEN Some(Message("Field 'randomness' is required and must be a string (or use randomnessSource.autoFetch)", <<>>))
    ELSE IF Len(Trim(body.randomness)) = 0 \/ Len(Trim(body.randomness)) > MAX_RANDOMNESS_LENGTH
         THEN Some(Message("Field 'randomness' must be between 1 and 1024 characters", <<>>))
    ELSE Null

\* the randomness checks of validateInput: Null, or the reason of the rejection
ValidateRandomness(body) ==
    IF isAutoFetch(body) THEN Null
    ELSE IF body.randomness = <<>>
         THEN Some(Message("Field 'randomness' is required and must be a string (or use randomnessSource.autoFetch)", <<>>))
    ELSE IF Len(Trim(body.randomness)) = 0 \/ Len(Trim(body.randomness)) > MAX_RANDOMNESS_LENGTH
         THEN Some(Message("Field 'randomness' must be between 1 and 1024 characters", <<>>))
    ELSE IF ~IsHexString(Trim(body.randomness))
         THEN Some(Message("Field 'randomness' must be a valid hexadecimal string", <<>>))
    ELSE Null

\* the per-entry loop without its test of entryCodesSet
RECURSIVE ValidateEntriesFrom_NoDuplicateCheck(_, _, _)
ValidateEntriesFrom_NoDuplicateCheck(entries, i, entryCodesSet) ==
    IF i > Len(entries) THEN Null
    ELSE LET raw == entries[i].entryCode
             code == Trim(raw)
         IN  IF raw = <<>>
             THEN Some(Message("Entry must have a string 'entryCode' field", <<>>))
             ELSE IF Len(code) = 0 \/ Len(code) > MAX_ENTRY_CODE_LENGTH
             THEN Some(Message("Entry code must be between 1 and 256 characters", <<>>))
             ELSE ValidateEntriesFrom_NoDuplicateCheck(entries, i + 1, entryCodesSet \cup {code})

\* the per-entry loop of validateInput from index i, with the codes seen so far
RECURSIVE ValidateEntriesFrom(_, _, _)
ValidateEntriesFrom(entries, i, entryCodesSet) ==
    IF i > Len(entries) THEN Null
    ELSE LET raw == entries[i].entryCode
             code == Trim(raw)
         IN  IF raw = <<>>
             THEN Some(Message("Entry must have a string 'entryCode' field", <<>>))
             ELSE IF Len(code) = 0 \/ Len(code) > MAX_ENTRY_CODE_LENGTH
             THEN Some(Message("Entry code must be between 1 and 256 characters", <<>>))
             ELSE IF code \in entryCodesSet
             THEN Some(Message("Duplicate entry code detected", code))
             ELSE ValidateEntriesFrom(entries, i + 1, entryCodesSet \cup {code})

ValidateEntries(entries) ==
    IF Len(entries) = 0 THEN Some(Message("Field 'entries' must contain at least one entry", <<>>))
    ELSE IF Len(entries) > MAX_ENTRIES THEN Some(Message("Maximum 100000 entries allowed per draw", <<>>))
    ELSE ValidateEntriesFrom(entries, 1, {})

\* the competition checks of validateInput: Null, or the reason of the rejection
ValidateCompetition(competition) ==
    IF competition = Null THEN Null
    ELSE LET c == Val(competition)
         IN  IF c.id = <<>>
             THEN Some(Message("Field 'competition.id' is required and must be a string", <<>>))
             ELSE IF Len(Trim(c.id)) = 0 \/ Len(c.id) > MAX_COMPETITION_ID_LENGTH
             THEN Some(Message("Field 'competition.id' must be between 1 and 128 characters", <<>>))
             ELSE IF c.name = <<>>
             THEN Some(Message("Field 'competition.name' is required and must be a string", <<>>))
             ELSE IF Len(Trim(c.name)) = 0 \/ Len(c.name) > MAX_COMPETITION_NAME_LENGTH
             THEN Some(Message("Field 'competition.name' must be between 1 and 256 characters", <<>>))
             ELSE IF c.mode = <<>>
             THEN Some(Message("Field 'competition.mode' is required and must be a string", <<>>))
             ELSE IF toLowerCase(c.mode) \notin {Live, Test}
             THEN Some(Message("Field 'competition.mode' must be either 'live' or 'test'", <<>>))
             ELSE Null

\* the competition as validateInput leaves it: id and name trimmed, mode in
\* lower case
NormalizedCompetition(competition) ==
    IF competition = Null THEN Null
    ELSE Some([id |-> Trim(Val(competition).id),
               name |-> Trim(Val(competition).name),
               mode |-> toLowerCase(Val(competition).mode)])

\* the body as validateInput leaves it: randomness and entry codes trimmed
NormalizedBody(body) ==
    [body EXCEPT
        !.randomness = IF isAutoFetch(body) THEN body.randomness ELSE Trim(body.randomness),
        !.entries = [k \in 1..Len(body.entries) |->
                        [body.entries[k] EXCEPT !.entryCode = Trim(body.entries[k].entryCode)]],
        !.competition = NormalizedCompetition(body.competition)]

\* validateInput: {valid, error} and the body it mutated
validateInput(body) ==
    IF ValidateRandomness(body) # Null
    THEN [valid |-> FALSE, error |-> ValidateRandomness(body), body |-> body]
    ELSE IF ValidateEntries(body.entries) # Null
    THEN [valid |-> FALSE, error |-> ValidateEntries(body.entries), body |-> body]
    ELSE IF ValidateCompetition(body.competition) # Null
    THEN [valid |-> FALSE, error |-> ValidateCompetition(body.competition), body |-> body]
    ELSE [valid |-> TRUE, error |-> Null, body |-> NormalizedBody(body)]

\* ------------------------------------------------------------- draw engine
\* the address carried as it came
HashEmail_Plain(email) == email

\* processEntries: the digest of the lower-cased, trimmed address
HashEmail(email) == computeSHA256Hex(Trim(toLowerCase(email)))

\* the processed entry with the quiz left unread
ProcessEntry_QuizUnread(entry) ==
    [entryCode |-> entry.entryCode,
     emailHash |-> IF entry.email # Null /\ Val(entry.email) # <<>>
                   THEN Some(HashEmail(Val(entry.email))) ELSE Null,
     quiz |-> Null, status |-> "qualified", disqualificationReason |-> Null]

\* processEntries: the processed entry of one raw entry
ProcessEntry(entry) ==
    [entryCode |-> entry.entryCode,
     emailHash |-> IF entry.email # Null /\ Val(entry.email) # <<>>
                   THEN Some(HashEmail(Val(entry.email))) ELSE Null,
     quiz |-> IF entry.quiz = Null THEN Null
              ELSE Some([answerCorrect |->
                            IF Val(entry.quiz).answerCorrect # Null
                            THEN Val(Val(entry.quiz).answerCorrect) ELSE TRUE]),
     status |-> IF entry.quiz # Null /\ Val(entry.quiz).answerCorrect = Some(FALSE)
                THEN "disqualified" ELSE "qualified",
     disqualificationReason |->
                IF entry.quiz # Null /\ Val(entry.quiz).answerCorrect = Some(FALSE)
                THEN Some("Quiz answered incorrectly") ELSE Null]

processEntries(entries) == [k \in 1..Len(entries) |-> ProcessEntry(entries[k])]

\* calculateEntryScores: score = BigInt of SHA-256(seed + entryCode)
ScoreEntry(seed, entry) ==
    LET scoreHex == computeSHA256Hex(seed \o entry.entryCode)
    IN  [entryCode |-> entry.entryCode, emailHash |-> entry.emailHash,
         quiz |-> entry.quiz, status |-> entry.status,
         disqualificationReason |-> entry.disqualificationReason,
         score |-> [type |-> "bigint", value |-> BigIntOfHex(scoreHex)],
         scoreHex |-> scoreHex]

calculateEntryScores(seed, entries) == [k \in 1..Len(entries) |-> ScoreEntry(seed, entries[k])]

\* Array.prototype.filter
RECURSIVE FilterStatus(_, _)
FilterStatus(entries, status) ==
    IF entries = <<>> THEN <<>>
    ELSE IF Head(entries).status = status
         THEN <<Head(entries)>> \o FilterStatus(Tail(entries), status)
         ELSE FilterStatus(Tail(entries), status)

\* the comparator without its tie-break: equal scores compare equal
CompareEntries_NoTieBreak(a, b) ==
    IF a.score.value > b.score.value THEN 0 - 1
    ELSE IF a.score.value < b.score.value THEN 1
    ELSE 0

\* the comparator of rankEntriesByScore: negative when a ranks before b
CompareEntries(a, b) ==
    IF a.score.value > b.score.value THEN 0 - 1
    ELSE IF a.score.value < b.score.value THEN 1
    ELSE localeCompare(a.entryCode, b.entryCode)

\* stable insertion of e into a sorted list
RECURSIVE InsertSorted(_, _)
InsertSorted(e, sorted) ==
    IF sorted = <<>> THEN <<e>>
    ELSE IF CompareEntries(e, Head(sorted)) < 0 THEN <<e>> \o sorted
    ELSE <<Head(sorted)>> \o InsertSorted(e, Tail(sorted))

\* Array.prototype.sort (stable) with CompareEntries
RECURSIVE SortEntries(_)
SortEntries(entries) ==
    IF entries = <<>> THEN <<>>
    ELSE InsertSorted(entries[Len(entries)], SortEntries(SubSeq(entries, 1, Len(entries) - 1)))

\* the ranked record with rank = index
RankedEntry_ZeroBased(entry, index) ==
    [rank |-> Some(index), entryCode |-> entry.entryCode,
     emailHash |-> entry.emailHash, quiz |-> entry.quiz,
     status |-> entry.status, disqualificationReason |-> entry.disqualificationReason,
     score |-> [type |-> "string", value |-> entry.score.value],
     scoreHex |-> entry.scoreHex]

\* the ranked record of rankEntriesByScore: rank = index + 1, score.toString()
RankedEntry(entry, index) ==
    [rank |-> Some(index + 1), entryCode |-> entry.entryCode,
     emailHash |-> entry.emailHash, quiz |-> entry.quiz,
     status |-> entry.status, disqualificationReason |-> entry.disqualificationReason,
     score |-> [type |-> "string", value |-> entry.score.value],
     scoreHex |-> entry.scoreHex]

rankEntriesByScore(scoredEntries) ==
    LET entries == SortEntries(scoredEntries)
    IN  [k \in 1..Len(entries) |-> RankedEntry(entries[k], k - 1)]

\* the ranked qualified entries alone
AllResults_QualifiedOnly(scoredEntries) ==
    rankEntriesByScore(FilterStatus(scoredEntries, "qualified"))

\* {...e, rank: null}: the scored entry, its score still a BigInt
UnrankedEntry(e) ==
    [rank |-> Null, entryCode |-> e.entryCode, emailHash |-> e.emailHash,
     quiz |-> e.quiz, status |-> e.status,
     disqualificationReason |-> e.disqualificationReason,
     score |-> e.score, scoreHex |-> e.scoreHex]

\* fetch, steps 5 to 7: ranked qualified entries, then the disqualified ones
AllResults(scoredEntries) ==
    LET qualifiedEntries == FilterStatus(scoredEntries, "qualified")
        disqualifiedEntries == FilterStatus(scoredEntries, "disqualified")
    IN  rankEntriesByScore(qualifiedEntries)
            \o [k \in 1..Len(disqualifiedEntries) |-> UnrankedEntry(disqualifiedEntries[k])]

\* -------------------------------------------------------------- audit bundle
\* `${r.rank}`: a rank, or null, in a template string
RankString(rank) == IF rank = Null THEN <<"n", "u", "l", "l">> ELSE <<HexDigit(Val(rank))>>

RECURSIVE ResultsString(_)
ResultsString(results) ==
    IF results = <<>> THEN <<>>
    ELSE RankString(Head(results).rank) \o <<":">> \o Head(results).entryCode \o <<":">>
            \o Head(results).scoreHex
            \o (IF Len(results) > 1 THEN <<"|">> ELSE <<>>) \o ResultsString(Tail(results))

\* computeResultsChecksum: the leading characters of the digest of rank:code:scoreHex|...
computeResultsChecksum(results) == SubSeq(computeSHA256Hex(ResultsString(results)), 1, 2)

\* results.find(r => r.rank === 1) || null
RECURSIVE FindRankOne(_)
FindRankOne(results) ==
    IF results = <<>> THEN Null
    ELSE IF Head(results).rank = Some(1) THEN Some(Head(results))
    ELSE FindRankOne(Tail(results))

CountStatus(results, status) == Len(FilterStatus(results, status))

\* formatDrawResponse: metadata.drawRound = drawRound || "UNSPECIFIED"
MetadataDrawRound(drawRound) == IF drawRound = Null THEN "UNSPECIFIED" ELSE Val(drawRound)

\* generateAuditBundle over the results and the metadata of formatDrawResponse
generateAuditBundle(results, seed, drawRound, competition, randomnessValue, randomnessSource, timestamp, randomnessFetchedByWorker) ==
    [competition |-> competition,
     draw |-> [timestamp |-> timestamp],
     randomness |-> [value |-> randomnessValue,
                     source |-> IF randomnessSource = Null THEN "unspecified"
                                ELSE Val(randomnessSource).provider,
                     round |-> IF randomnessSource # Null /\ Val(randomnessSource).round # Null
                               THEN Val(Val(randomnessSource).round)
                               ELSE MetadataDrawRound(drawRound),
                     fetchedByWorker |-> randomnessFetchedByWorker],
     entries |-> [total |-> Len(results),
                  qualified |-> CountStatus(results, "qualified"),
                  disqualified |-> CountStatus(results, "disqualified"),
                  list |-> [k \in 1..Len(results) |->
                               [entryCode |-> results[k].entryCode, rank |-> results[k].rank,
                                emailHash |-> results[k].emailHash,
                                quiz |-> results[k].quiz, status |-> results[k].status,
                                disqualificationReason |-> results[k].disqualificationReason]]],
     results |-> [winner |-> FindRankOne(results), fullRanking |-> results,
                  seed |-> seed, checksum |-> computeResultsChecksum(results)],
     bundleHash |-> Null,
     publication |-> Null]

\* JSON.stringify throws a TypeError on a BigInt value
HasBigInt(results) == \E k \in 1..Len(results) : results[k].score.type = "bigint"

\* a serialization that leaves the instant out
TimeChar_Dropped(timestamp) == "0"

TimeChar(timestamp) == IF timestamp = "2025-01-31T23:59:00.000Z" THEN "1" ELSE "2"

RoundChar(round) == CASE round = "12345" -> "5" [] round = "7" -> "7" [] OTHER -> "n"

RECURSIVE EntriesJson(_)
EntriesJson(results) ==
    IF results = <<>> THEN <<>>
    ELSE Head(results).entryCode \o RankString(Head(results).rank)
            \o (IF Head(results).emailHash = Null THEN <<>> ELSE Val(Head(results).emailHash))
            \o <<IF Head(results).status = "qualified" THEN "q" ELSE "d">>
            \o Head(results).scoreHex \o <<"|">> \o EntriesJson(Tail(results))

\* JSON.stringify(auditBundle): the characters of the serialized bundle
BundleJson(bundle) ==
    (IF bundle.competition = Null THEN <<"n">>
     ELSE <<IF Val(bundle.competition).mode = Live THEN "e" ELSE "t">>)
        \o <<TimeChar(bundle.draw.timestamp)>>
        \o bundle.randomness.value \o <<RoundChar(bundle.randomness.round)>>
        \o <<IF bundle.randomness.fetchedByWorker THEN "f" ELSE "c">>
        \o EntriesJson(bundle.results.fullRanking)
        \o bundle.results.seed \o bundle.results.checksum
        \o (IF bundle.bundleHash = Null THEN <<>> ELSE Val(bundle.bundleHash))
        \o (IF bundle.publication = Null THEN <<>>
            ELSE <<TimeChar(Val(bundle.publication).publishedAt)>>)

\* ------------------------------------------------------------- publication
\* message.includes(needle), for the messages the handler can see
Includes(message, needle) ==
    needle \in (CASE message = "The operation was aborted due to timeout" -> {"timeout"}
                  [] message = "Network connection lost" -> {}
                  [] message = "date is not defined" -> {}
                  [] message = "GitHub token not configured" -> {}
                  [] OTHER -> {})

\* isRetryableError
isRetryableError(message) ==
    \/ Includes(message, "rate limit")
    \/ Includes(message, "502")
    \/ Includes(message, "503")
    \/ Includes(message, "504")
    \/ Includes(message, "timeout")

\* \w of a regular expression: [A-Za-z0-9_]
WordChars ==
    {"a", "b", "c", "d", "e", "f", "i", "l", "p", "s", "t", "u", "v", "z",
     "A", "B", "C", "D", "E", "F", "I", "L", "P", "S", "T", "U", "V",
     "0", "1", "2", "3", "4", "5", "6", "7", "8", "9", "_"}

\* .replace(/[^\w\s-]/g, '')
RemoveNonSlugChars(s) == SelectSeq(s, LAMBDA c : c \in WordChars \cup {" ", "-"})

\* the text after its leading run of spaces, underscores and hyphens
RECURSIVE SkipSeparators(_)
SkipSeparators(s) ==
    IF s # <<>> /\ Head(s) \in {" ", "_", "-"} THEN SkipSeparators(Tail(s)) ELSE s

\* .replace(/[\s_-]+/g, '-')
RECURSIVE CollapseSeparators(_)
CollapseSeparators(s) ==
    IF s = <<>> THEN <<>>
    ELSE IF Head(s) \in {" ", "_", "-"} THEN <<"-">> \o CollapseSeparators(SkipSeparators(s))
    ELSE <<Head(s)>> \o CollapseSeparators(Tail(s))

\* .replace(/^-+|-+$/g, '')
RECURSIVE StripHyphens(_)
StripHyphens(s) ==
    IF s # <<>> /\ Head(s) = "-" THEN StripHyphens(Tail(s))
    ELSE IF s # <<>> /\ s[Len(s)] = "-" THEN StripHyphens(SubSeq(s, 1, Len(s) - 1))
    ELSE s

\* slugify(competition.name)
slugify(text) == StripHyphens(CollapseSeparators(RemoveNonSlugChars(Trim(toLowerCase(text)))))

\* new Date(timestamp): the UTC fields of the instant, the month from 0
DateOf(timestamp) ==
    CASE timestamp = "2025-01-31T23:59:00.000Z"
           -> [year |-> 2025, month |-> 0, date |-> 31, hours |-> 23, minutes |-> 59]
      [] timestamp = "2025-01-31T23:59:30.000Z"
           -> [year |-> 2025, month |-> 0, date |-> 31, hours |-> 23, minutes |-> 59]
      [] timestamp = "2025-02-01T00:00:00.000Z"
           -> [year |-> 2025, month |-> 1, date |-> 1, hours |-> 0, minutes |-> 0]

\* String(n) of a natural number
RECURSIVE NumberString(_)
NumberString(n) ==
    IF n < 10 THEN <<HexDigit(n)>> ELSE NumberString(n \div 10) \o <<HexDigit(n % 10)>>

\* String(n).padStart(2, '0')
PadStart2(n) == IF Len(NumberString(n)) < 2 THEN <<"0">> \o NumberString(n) ELSE NumberString(n)

YearMonth(timestamp) ==
    LET date == DateOf(timestamp)
    IN  NumberString(date.year) \o <<"-">> \o PadStart2(date.month + 1)

DateTime(timestamp) ==
    LET date == DateOf(timestamp)
    IN  NumberString(date.year) \o <<"-">> \o PadStart2(date.month + 1) \o <<"-">>
            \o PadStart2(date.date) \o <<"-">> \o PadStart2(date.hours) \o PadStart2(date.minutes)

\* the path with every draw under the test folder
FilePath_TestFolderOnly(competition, timestamp) ==
    Test \o <<"/">> \o YearMonth(timestamp) \o <<"/">> \o slugify(competition.name)
        \o <<"-">> \o DateTime(timestamp) \o <<"/", "d", "r", "a", "w", ".", "j", "s", "o", "n">>

\* publishToGitHub: `${folder}/${yearMonth}/${slug}-${dateTime}/draw.json`
FilePath(competition, timestamp) ==
    (IF competition.mode = Live THEN Live ELSE Test)
        \o <<"/">> \o YearMonth(timestamp) \o <<"/">> \o slugify(competition.name)
        \o <<"-">> \o DateTime(timestamp) \o <<"/", "d", "r", "a", "w", ".", "j", "s", "o", "n">>

\* what the store answers to the existence check, or how the request fails
HttpStatuses == {200, 404, 401, 429, 503}

CheckOutcomes ==
    {[kind |-> "response", status |-> st, message |-> ""] : st \in HttpStatuses}
        \cup {[kind |-> "throw", status |-> 0, message |-> m] :
                 m \in {"The operation was aborted due to timeout", "Network connection lost"}}

ResponseOk(outcome) == outcome.kind = "response" /\ outcome.status \in 200..299

\* how the store would answer a write and a release request
StoreStates == [commit : {"accept", "reject"}, release : {"accept", "reject"}]

Times == {"2025-01-31T23:59:00.000Z", "2025-02-01T00:00:00.000Z"}

NoGithubResult ==
    [published |-> FALSE, reason |-> Null, error |-> Null, retryable |-> Null,
     commitUrl |-> Null, commitSha |-> Null, releaseUrl |-> Null, releaseTag |-> Null,
     filePath |-> Null]

\* the instants new Date() can return at or after instant t
TimesFrom(t) == IF t = "2025-01-31T23:59:00.000Z" THEN Times ELSE {t}

\* what the randomness beacon answers to fetchDrandLatest
DrandResponses ==
    {[ok |-> TRUE, round |-> Some("12345"), randomness |-> <<"b", "e">>],
     [ok |-> FALSE, round |-> Null, randomness |-> <<>>],
     [ok |-> TRUE, round |-> Some("12345"), randomness |-> <<>>]}

\* the beacon's data taken without the test of its fields
fetchDrandLatest_Unchecked(resp) ==
    IF ~resp.ok THEN Null
    ELSE Some([round |-> resp.round, randomness |-> resp.randomness])

\* fetchDrandLatest: the beacon's data, or Null when it throws
fetchDrandLatest(resp) ==
    IF ~resp.ok THEN Null
    ELSE IF resp.round = Null \/ resp.randomness = <<>> THEN Null
    ELSE Some([round |-> resp.round, randomness |-> resp.randomness])

\* createErrorResponse
createErrorResponse(message, status) ==
    [status |-> status, success |-> FALSE, message |-> Some(message),
     draw |-> Null, audit |-> Null, metadata |-> Null, results |-> Null]

\* the catch without its test of the attempts used up
RetryDecision_Unbounded(i, maxRetries, message) ==
    IF ~isRetryableError(message) THEN "throw" ELSE "sleep"

\* retryWithBackoff's catch at attempt i: rethrow, or sleep and try again
RetryDecision(i, maxRetries, message) ==
    IF i = maxRetries - 1 \/ ~isRetryableError(message) THEN "throw" ELSE "sleep"

\* Math.pow(2, i) * 1000
BackoffDelay(i) == (2 ^ i) * BackoffBaseMs

\* ----------------------------------------------------------------- state
VARIABLES
    body,               \* the parsed request body
    env,                \* the worker's environment bindings
    pc,                 \* where the handler is
    drawTimestamp,      \* new Date().toISOString() at the start of the draw
    randomness,         \* the randomness the seed is made of
    randomnessFetchedByWorker,
    seed,
    scoreJobs,          \* the promises of calculateEntryScores: pending or settled
    settled,            \* the entries' indexes in the order their promises settled
    scoredEntries,
    results,            \* allResults, the results of formatDrawResponse
    auditBundle,
    bundleHash,
    githubResult,
    retryI,             \* i of the running retryWithBackoff
    sleeps,             \* the sleep(ms) calls made so far
    calls,              \* the requests sent to the external store so far
    existingFileSha,
    store,              \* the store at the time the write is due
    httpResponse

vars ==
    <<body, env, pc, drawTimestamp, randomness, randomnessFetchedByWorker, seed,
      scoreJobs, settled, scoredEntries, results, auditBundle, bundleHash, githubResult, retryI, sleeps,
      calls, existingFileSha, store, httpResponse>>

drawVars == <<seed, scoreJobs, settled, scoredEntries, results, auditBundle, bundleHash>>

pubVars == <<githubResult, retryI, sleeps, calls, existingFileSha, store>>

Init ==
    /\ body \in Bodies
    /\ env \in Envs
    /\ pc = "validate"
    /\ drawTimestamp = Null
    /\ randomness = <<>>
    /\ randomnessFetchedByWorker = FALSE
    /\ seed = Null
    /\ scoreJobs = <<>>
    /\ settled = <<>>
    /\ scoredEntries = <<>>
    /\ results = <<>>
    /\ auditBundle = Null
    /\ bundleHash = Null
    /\ githubResult = Null
    /\ retryI = 0
    /\ sleeps = <<>>
    /\ calls = <<>>
    /\ existingFileSha = Null
    /\ store = Null
    /\ httpResponse = Null

\* fetch: validateInput, its 400, and the draw timestamp
Validate ==
    /\ pc = "validate"
    /\ LET validationResult == validateInput(body)
       IN  IF ~validationResult.valid
           THEN /\ httpResponse' = Some(createErrorResponse(Val(validationResult.error), 400))
                /\ pc' = "done"
                /\ UNCHANGED <<body, drawTimestamp>>
           ELSE /\ body' = validationResult.body
                /\ \E t \in Times : drawTimestamp' = Some(t)
                /\ pc' = "randomness"
                /\ UNCHANGED httpResponse
    /\ UNCHANGED <<env, randomness, randomnessFetchedByWorker>>
    /\ UNCHANGED drawVars
    /\ UNCHANGED pubVars

\* fetch, step 1: the randomness of the request, or the beacon's
GetRandomness ==
    /\ pc = "randomness"
    /\ IF isAutoFetch(body)
       THEN \E resp \in DrandResponses :
              LET drandData == fetchDrandLatest(resp)
              IN  IF drandData = Null
                  THEN /\ httpResponse' = Some(createErrorResponse(Message(
                              "Failed to fetch randomness from drand. Please try again or provide randomness manually.", <<>>), 503))
                       /\ pc' = "done"
                       /\ UNCHANGED <<body, randomness, randomnessFetchedByWorker>>
                  ELSE /\ randomness' = Val(drandData).randomness
                       /\ body' = [body EXCEPT !.randomnessSource =
                                      Some([Val(body.randomnessSource) EXCEPT
                                                !.round = Val(drandData).round])]
                       /\ randomnessFetchedByWorker' = TRUE
                       /\ pc' = "draw"
                       /\ UNCHANGED httpResponse
       ELSE IF body.randomness = <<>>
            THEN /\ httpResponse' = Some(createErrorResponse(Message(
                        "Field 'randomness' is required when not using autoFetch", <<>>), 400))
                 /\ pc' = "done"
                 /\ UNCHANGED <<body, randomness, randomnessFetchedByWorker>>
            ELSE /\ randomness' = body.randomness
                 /\ pc' = "draw"
                 /\ UNCHANGED <<body, randomnessFetchedByWorker, httpResponse>>
    /\ UNCHANGED <<env, drawTimestamp>>
    /\ UNCHANGED drawVars
    /\ UNCHANGED pubVars

\* fetch, steps 2 to 4: the seed, processEntries, and calculateEntryScores up to
\* the creation of one promise per entry
StartDraw ==
    /\ pc = "draw"
    /\ seed' = Some(computeSHA256Hex(randomness))
    /\ scoreJobs' = [k \in 1..Len(body.entries) |-> Null]
    /\ settled' = <<>>
    /\ pc' = "scoring"
    /\ UNCHANGED <<body, env, drawTimestamp, randomness, randomnessFetchedByWorker,
                   scoredEntries, results, auditBundle, bundleHash, httpResponse>>
    /\ UNCHANGED pubVars

\* calculateEntryScores: the promise of one entry settles, in any order
CompleteScore ==
    /\ pc = "scoring"
    /\ \E k \in 1..Len(scoreJobs) :
         /\ scoreJobs[k] = Null
         /\ scoreJobs' = [scoreJobs EXCEPT
                             ![k] = Some(ScoreEntry(Val(seed), processEntries(body.entries)[k]))]
         /\ settled' = Append(settled, k)
    /\ UNCHANGED <<body, env, pc, drawTimestamp, randomness, randomnessFetchedByWorker,
                   seed, scoredEntries, results, auditBundle, bundleHash, httpResponse>>
    /\ UNCHANGED pubVars

\* the fulfilment values collected in the order the promises settled
PromiseAll_InSettlementOrder(jobs, order) == [k \in 1..Len(jobs) |-> Val(jobs[order[k]])]

\* Promise.all: the fulfilment values in the order of the promises
PromiseAll(jobs, order) == [k \in 1..Len(jobs) |-> Val(jobs[k])]

\* fetch, steps 4 to 9: Promise.all resolves, then ranking, results and the
\* audit bundle
FinishDraw ==
    /\ pc = "scoring"
    /\ \A k \in 1..Len(scoreJobs) : scoreJobs[k] # Null
    /\ scoredEntries' = PromiseAll(scoreJobs, settled)
    /\ results' = AllResults(scoredEntries')
    /\ auditBundle' = Some(generateAuditBundle(results', Val(seed), body.drawRound, body.competition,
                               randomness, body.randomnessSource, Val(drawTimestamp),
                               randomnessFetchedByWorker))
    /\ scoreJobs' = <<>>
    /\ settled' = <<>>
    /\ pc' = "hash"
    /\ UNCHANGED <<body, env, drawTimestamp, randomness, randomnessFetchedByWorker,
                   seed, bundleHash, httpResponse>>
    /\ UNCHANGED pubVars

\* fetch, step 10: JSON.stringify(auditBundle) and its digest; a TypeError goes to
\* the handler's outer catch
HashBundle ==
    /\ pc = "hash"
    /\ IF HasBigInt(Val(auditBundle).results.fullRanking)
       THEN /\ httpResponse' = Some(createErrorResponse(Message(
                   "Internal server error occurred during draw processing", <<>>), 500))
            /\ pc' = "done"
            /\ UNCHANGED bundleHash
       ELSE /\ bundleHash' = Some(computeSHA256Hex(BundleJson(Val(auditBundle))))
            /\ pc' = "publish"
            /\ UNCHANGED httpResponse
    /\ UNCHANGED <<body, env, drawTimestamp, randomness, randomnessFetchedByWorker,
                   seed, scoreJobs, settled, scoredEntries, results, auditBundle>>
    /\ UNCHANGED pubVars

\* the token check left out
TokenConfigured_Skipped(e) == TRUE

\* publishToGitHub: if (!env.GITHUB_TOKEN) is not taken
TokenConfigured(e) == e.GITHUB_TOKEN

\* fetch: if (competition && competition.id && competition.name)
HasCompetition(b) ==
    b.competition # Null /\ Val(b.competition).id # <<>> /\ Val(b.competition).name # <<>>

\* the publication error left to the handler's outer catch
CatchGithubError_Escalated(message) ==
    /\ httpResponse' = Some(createErrorResponse(Message(
            "Internal server error occurred during draw processing", <<>>), 500))
    /\ pc' = "done"
    /\ UNCHANGED githubResult

\* fetch's catch around publishToGitHub: the error becomes a result object
CatchGithubError(message) ==
    /\ githubResult' = Some([NoGithubResult EXCEPT
                                !.error = Some(message),
                                !.retryable = Some(isRetryableError(message))])
    /\ pc' = "respond"
    /\ UNCHANGED httpResponse

\* step 11 without its test of the competition metadata: publishToGitHub is
\* called for every draw
PublishStart_Unconditional ==
    /\ pc = "publish"
    /\ IF ~TokenConfigured(env)
       THEN /\ githubResult' = Some([NoGithubResult EXCEPT
                                        !.error = Some("GitHub token not configured"),
                                        !.retryable = Some(FALSE)])
            /\ pc' = "respond"
            /\ UNCHANGED auditBundle
       ELSE /\ \E t \in TimesFrom(Val(drawTimestamp)) :
                 auditBundle' = Some([Val(auditBundle) EXCEPT
                     !.bundleHash = bundleHash,
                     !.publication = Some([publishedAt |-> t,
                         filePath |-> FilePath(
                             IF body.competition = Null
                             THEN [id |-> <<>>, name |-> <<>>, mode |-> Test]
                             ELSE Val(body.competition), Val(drawTimestamp))])])
            /\ pc' = "check"
            /\ UNCHANGED githubResult
    /\ retryI' = 0
    /\ UNCHANGED <<body, env, drawTimestamp, randomness, randomnessFetchedByWorker,
                   seed, scoreJobs, settled, scoredEntries, results, bundleHash,
                   httpResponse, sleeps, calls, existingFileSha, store>>

\* publishToGitHub also overwriting the draw's timestamp with the publication's
PublishStart_RestampsDraw ==
    /\ pc = "publish"
    /\ IF ~HasCompetition(body)
       THEN /\ githubResult' = Some([NoGithubResult EXCEPT
                                        !.reason = Some("No competition metadata provided")])
            /\ pc' = "respond"
            /\ UNCHANGED auditBundle
       ELSE IF ~TokenConfigured(env)
       THEN /\ githubResult' = Some([NoGithubResult EXCEPT
                                        !.error = Some("GitHub token not configured"),
                                        !.retryable = Some(FALSE)])
            /\ pc' = "respond"
            /\ UNCHANGED auditBundle
       ELSE /\ \E t \in TimesFrom(Val(drawTimestamp)) :
                 auditBundle' = Some([Val(auditBundle) EXCEPT
                     !.bundleHash = bundleHash,
                     !.draw = [timestamp |-> t],
                     !.publication = Some([publishedAt |-> t,
                         filePath |-> FilePath(Val(body.competition), Val(drawTimestamp))])])
            /\ pc' = "check"
            /\ UNCHANGED githubResult
    /\ retryI' = 0
    /\ UNCHANGED <<body, env, drawTimestamp, randomness, randomnessFetchedByWorker,
                   seed, scoreJobs, settled, scoredEntries, results, bundleHash,
                   httpResponse, sleeps, calls, existingFileSha, store>>

\* publishToGitHub leaving the bundle as it was
PublishStart_BundleUntouched ==
    /\ pc = "publish"
    /\ IF ~HasCompetition(body)
       THEN /\ githubResult' = Some([NoGithubResult EXCEPT
                                        !.reason = Some("No competition metadata provided")])
            /\ pc' = "respond"
            /\ UNCHANGED auditBundle
       ELSE IF ~TokenConfigured(env)
       THEN /\ githubResult' = Some([NoGithubResult EXCEPT
                                        !.error = Some("GitHub token not configured"),
                                        !.retryable = Some(FALSE)])
            /\ pc' = "respond"
            /\ UNCHANGED auditBundle
       ELSE /\ UNCHANGED auditBundle
            /\ pc' = "check"
            /\ UNCHANGED githubResult
    /\ retryI' = 0
    /\ UNCHANGED <<body, env, drawTimestamp, randomness, randomnessFetchedByWorker,
                   seed, scoreJobs, settled, scoredEntries, results, bundleHash,
                   httpResponse, sleeps, calls, existingFileSha, store>>

\* fetch, step 11, and publishToGitHub up to the call of commitFileToGitHub
PublishStart ==
    /\ pc = "publish"
    /\ IF ~HasCompetition(body)
       THEN /\ githubResult' = Some([NoGithubResult EXCEPT
                                        !.reason = Some("No competition metadata provided")])
            /\ pc' = "respond"
            /\ UNCHANGED auditBundle
       ELSE IF ~TokenConfigured(env)
       THEN /\ githubResult' = Some([NoGithubResult EXCEPT
                                        !.error = Some("GitHub token not configured"),
                                        !.retryable = Some(FALSE)])
            /\ pc' = "respond"
            /\ UNCHANGED auditBundle
       ELSE /\ \E t \in TimesFrom(Val(drawTimestamp)) :
                 auditBundle' = Some([Val(auditBundle) EXCEPT
                     !.bundleHash = bundleHash,
                     !.publication = Some([publishedAt |-> t,
                         filePath |-> FilePath(Val(body.competition), Val(drawTimestamp))])])
            /\ pc' = "check"
            /\ UNCHANGED githubResult
    /\ retryI' = 0
    /\ UNCHANGED <<body, env, drawTimestamp, randomness, randomnessFetchedByWorker,
                   seed, scoreJobs, settled, scoredEntries, results, bundleHash,
                   httpResponse, sleeps, calls, existingFileSha, store>>

\* commitFileToGitHub: one attempt of the existence check under retryWithBackoff;
\* a response that is not ok gives null, an error that is rethrown is swallowed
CheckAttempt ==
    /\ pc = "check"
    /\ \E outcome \in CheckOutcomes :
         /\ calls' = Append(calls, [kind |-> "check", attempt |-> retryI, sha |-> Null, outcome |-> outcome])
         /\ IF outcome.kind = "response"
            THEN /\ existingFileSha' = IF ResponseOk(outcome) THEN Some("sha-of-existing") ELSE Null
                 /\ pc' = "commit"
            ELSE IF RetryDecision(retryI, DefaultMaxRetries, outcome.message) = "throw"
            THEN /\ existingFileSha' = Null
                 /\ pc' = "commit"
            ELSE /\ pc' = "backoff"
                 /\ UNCHANGED existingFileSha
    /\ UNCHANGED <<body, env, drawTimestamp, randomness, randomnessFetchedByWorker,
                   githubResult, retryI, sleeps, store, httpResponse>>
    /\ UNCHANGED drawVars

\* retryWithBackoff: the sleep before the next attempt
Backoff ==
    /\ pc = "backoff"
    /\ sleeps' = Append(sleeps, BackoffDelay(retryI))
    /\ retryI' = retryI + 1
    /\ pc' = "check"
    /\ UNCHANGED <<body, env, drawTimestamp, randomness, randomnessFetchedByWorker,
                   githubResult, calls, existingFileSha, store, httpResponse>>
    /\ UNCHANGED drawVars

\* the failure of commitFileToGitHub swallowed, and the release created all the same
BuildCommitMessage_ThenRelease ==
    /\ pc = "commit"
    /\ \E st \in StoreStates : store' = Some(st)
    /\ calls' = Append(calls, [kind |-> "release", attempt |-> 0, sha |-> Null,
                               outcome |-> [kind |-> "response", status |-> 201, message |-> ""]])
    /\ CatchGithubError("date is not defined")
    /\ UNCHANGED <<body, env, drawTimestamp, randomness, randomnessFetchedByWorker,
                   retryI, sleeps, existingFileSha>>
    /\ UNCHANGED drawVars

\* commitFileToGitHub: the commit message reads `date`, which no scope of the
\* module binds: a ReferenceError, before the write is sent.  publishToGitHub
\* rethrows it and fetch catches it.
BuildCommitMessage ==
    /\ pc = "commit"
    /\ \E st \in StoreStates : store' = Some(st)
    /\ CatchGithubError("date is not defined")
    /\ UNCHANGED <<body, env, drawTimestamp, randomness, randomnessFetchedByWorker,
                   retryI, sleeps, calls, existingFileSha>>
    /\ UNCHANGED drawVars

\* rankedQualifiedEntries[0] || null
Winner(res) == IF res # <<>> /\ Head(res).status = "qualified" THEN Some(Head(res)) ELSE Null

\* fetch, steps 12 and 13: the 200 response
SuccessResponse ==
    [status |-> 200, success |-> TRUE, message |-> Null,
     draw |-> Some([timestamp |-> Val(drawTimestamp),
                    totalEntries |-> Len(scoredEntries),
                    qualifiedEntries |-> CountStatus(scoredEntries, "qualified"),
                    disqualifiedEntries |-> CountStatus(scoredEntries, "disqualified"),
                    winner |-> Winner(results)]),
     audit |-> Some([bundle |-> Val(auditBundle), bundleHash |-> Val(bundleHash),
                     github |-> Val(githubResult)]),
     metadata |-> Some([drawRound |-> MetadataDrawRound(body.drawRound),
                        drawSeed |-> Val(seed)]),
     results |-> Some(results)]

\* the response held back unless the publication succeeded
Respond_OnlyIfPublished ==
    /\ pc = "respond"
    /\ Val(githubResult).published
    /\ httpResponse' = Some(SuccessResponse)
    /\ pc' = "done"
    /\ UNCHANGED <<body, env, drawTimestamp, randomness, randomnessFetchedByWorker>>
    /\ UNCHANGED drawVars
    /\ UNCHANGED pubVars

Respond ==
    /\ pc = "respond"
    /\ httpResponse' = Some(SuccessResponse)
    /\ pc' = "done"
    /\ UNCHANGED <<body, env, drawTimestamp, randomness, randomnessFetchedByWorker>>
    /\ UNCHANGED drawVars
    /\ UNCHANGED pubVars

Next ==
    \/ Validate
    \/ GetRandomness
    \/ StartDraw
    \/ CompleteScore
    \/ FinishDraw
    \/ HashBundle
    \/ PublishStart
    \/ CheckAttempt
    \/ Backoff
    \/ BuildCommitMessage
    \/ Respond

Spec == Init /\ [][Next]_vars

\* ------------------------------------------------------ ranking in isolation
\* steps 5 to 7 of fetch applied to scored entries whose scores are chosen
\* freely, so that equal scores occur
RankCodes == {<<"a">>, <<"A">>, <<"B">>}

RankScores == {1, 2}

ScoredInput(code, value, status) ==
    [entryCode |-> code, emailHash |-> Null,
     quiz |-> IF status = "disqualified" THEN Some([answerCorrect |-> FALSE]) ELSE Null,
     status |-> status,
     disqualificationReason |->
         IF status = "disqualified" THEN Some("Quiz answered incorrectly") ELSE Null,
     score |-> [type |-> "bigint", value |-> value],
     scoreHex |-> ByteToHex(value)]

ScoredInputs ==
    {ScoredInput(c, v, st) : c \in RankCodes, v \in RankScores,
                             st \in {"qualified", "disqualified"}}

\* lists of scored entries with distinct codes, as validateInput lets through
ScoredLists ==
    {l \in UNION {[1..n -> ScoredInputs] : n \in 0..MaxRanked} :
        \A i, j \in 1..Len(l) : i # j => l[i].entryCode # l[j].entryCode}

InitRank ==
    /\ scoredEntries \in ScoredLists
    /\ results = <<>>
    /\ pc = "rank"
    /\ body = [randomness |-> <<>>, entries |-> <<>>, drawRound |-> Null,
               competition |-> Null, randomnessSource |-> Null]
    /\ env = [GITHUB_TOKEN |-> FALSE]
    /\ drawTimestamp = Null
    /\ randomness = <<>>
    /\ randomnessFetchedByWorker = FALSE
    /\ seed = Null
    /\ scoreJobs = <<>>
    /\ settled = <<>>
    /\ auditBundle = Null
    /\ bundleHash = Null
    /\ githubResult = Null
    /\ retryI = 0
    /\ sleeps = <<>>
    /\ calls = <<>>
    /\ existingFileSha = Null
    /\ store = Null
    /\ httpResponse = Null

\* fetch, steps 5 to 7: filter, rankEntriesByScore, allResults
RankEntries ==
    /\ pc = "rank"
    /\ results' = AllResults(scoredEntries)
    /\ pc' = "ranked"
    /\ UNCHANGED <<body, env, drawTimestamp, randomness, randomnessFetchedByWorker,
                   seed, scoreJobs, settled, scoredEntries, auditBundle, bundleHash,
                   httpResponse>>
    /\ UNCHANGED pubVars

NextRank == RankEntries

SpecRank == InitRank /\ [][NextRank]_vars

\* ------------------------------------------------- draws of richer entries
\* the handler on requests without competition metadata, whose entries vary in
\* the case and the padding of their codes, in their quiz and in their email
DrawEntryCodes == {<<"A">>, <<"a">>, <<" ", "A">>}

DrawQuizzes == Quizzes \cup {Some([answerCorrect |-> Null])}

Emails == {Null, Some(<<" ", "B", "c">>), Some(<<"b", "c">>)}

DrawEntries == [entryCode : DrawEntryCodes, quiz : DrawQuizzes, email : Emails]

DrawEntryLists == UNION {[1..n -> DrawEntries] : n \in 0..MaxEntries}

DrawBodies ==
    [randomness : {<<"z">>, <<"a", "f">>}, entries : DrawEntryLists,
     drawRound : DrawRounds, competition : {Null}, randomnessSource : {Null}]

InitDraw ==
    /\ body \in DrawBodies
    /\ env = [GITHUB_TOKEN |-> FALSE]
    /\ pc = "validate"
    /\ drawTimestamp = Null
    /\ randomness = <<>>
    /\ randomnessFetchedByWorker = FALSE
    /\ seed = Null
    /\ scoreJobs = <<>>
    /\ settled = <<>>
    /\ scoredEntries = <<>>
    /\ results = <<>>
    /\ auditBundle = Null
    /\ bundleHash = Null
    /\ githubResult = Null
    /\ retryI = 0
    /\ sleeps = <<>>
    /\ calls = <<>>
    /\ existingFileSha = Null
    /\ store = Null
    /\ httpResponse = Null

NextDraw ==
    \/ Validate
    \/ GetRandomness
    \/ StartDraw
    \/ CompleteScore
    \/ FinishDraw
    \/ HashBundle
    \/ PublishStart
    \/ Respond

SpecDraw == InitDraw /\ [][NextDraw]_vars

\* the handler on requests whose competition name and mode vary, with a
\* credential, for the destination path
PathNames ==
    {<<>>, <<" ">>, <<"C", "u", "p">>, <<"c", "u", "p">>, <<" ", "C", "u", "p">>,
     <<"a", " ", "b">>, <<"a", "_", "b">>, <<"a", "-", "b">>, <<"a", " ", "-", "b">>,
     <<"a", "!", "b">>, <<"a", "b">>, <<"A", "B", "!">>, <<"-", "a", "_">>, <<"!">>}

PathModes == {<<>>, Live, Test, <<"L", "I", "V", "E">>, <<"T", "e", "s", "t">>, <<"l", "i", "v">>}

PathCompetitions == [id : {<<"c", "1">>}, name : PathNames, mode : PathModes]

PathBodies ==
    [randomness : {<<"a", "f">>}, entries : {<<[entryCode |-> <<"A">>, quiz |-> Null, email |-> Null]>>},
     drawRound : {Null}, competition : {Some(c) : c \in PathCompetitions},
     randomnessSource : {Null}]

\* the instants of a draw: two in one minute, one in the next month
PathTimes == Times \cup {"2025-01-31T23:59:30.000Z"}

InitPath ==
    /\ body \in PathBodies
    /\ env = [GITHUB_TOKEN |-> TRUE]
    /\ pc = "validate"
    /\ drawTimestamp = Null
    /\ randomness = <<>>
    /\ randomnessFetchedByWorker = FALSE
    /\ seed = Null
    /\ scoreJobs = <<>>
    /\ settled = <<>>
    /\ scoredEntries = <<>>
    /\ results = <<>>
    /\ auditBundle = Null
    /\ bundleHash = Null
    /\ githubResult = Null
    /\ retryI = 0
    /\ sleeps = <<>>
    /\ calls = <<>>
    /\ existingFileSha = Null
    /\ store = Null
    /\ httpResponse = Null

NextPath ==
    \/ Validate
    \/ GetRandomness
    \/ StartDraw
    \/ CompleteScore
    \/ FinishDraw
    \/ HashBundle
    \/ PublishStart
    \/ CheckAttempt
    \/ Backoff
    \/ BuildCommitMessage
    \/ Respond

SpecPath == InitPath /\ [][NextPath]_vars

\* the handler on single-entry requests, with the scheduling of its steps: the
\* runtime runs every continuation of the handler that is ready (the digests
\* settle, the timer of sleep fires), while a request to the store is sent
\* without a timeout or an abort signal and may stay unanswered for ever
PubBodies ==
    [randomness : {<<"a", "f">>}, entries : [1..1 -> RawEntries], drawRound : {Null},
     competition : Competitions, randomnessSource : RandomnessSources]

InitPub ==
    /\ body \in PubBodies
    /\ env \in Envs
    /\ pc = "validate"
    /\ drawTimestamp = Null
    /\ randomness = <<>>
    /\ randomnessFetchedByWorker = FALSE
    /\ seed = Null
    /\ scoreJobs = <<>>
    /\ settled = <<>>
    /\ scoredEntries = <<>>
    /\ results = <<>>
    /\ auditBundle = Null
    /\ bundleHash = Null
    /\ githubResult = Null
    /\ retryI = 0
    /\ sleeps = <<>>
    /\ calls = <<>>
    /\ existingFileSha = Null
    /\ store = Null
    /\ httpResponse = Null

\* the steps that need no answer from the store
HandlerStep ==
    \/ Validate
    \/ GetRandomness
    \/ StartDraw
    \/ CompleteScore
    \/ FinishDraw
    \/ HashBundle
    \/ PublishStart
    \/ Backoff
    \/ BuildCommitMessage
    \/ Respond

SpecPub == InitPub /\ [][Next]_vars /\ WF_vars(HandlerStep)

\* -------------------------------------------------------------- properties
Done == pc = "done"

Resp == Val(httpResponse)

\* the draw was computed: validation passed and the randomness was obtained
DrawComputed == seed # Null

\* step 11 was reached with competition metadata: publishToGitHub was called
PublicationInvoked == bundleHash # Null /\ body.competition # Null /\ pc # "publish"

CallsOf(kind) == {k \in 1..Len(calls) : calls[k].kind = kind}

CheckFinished == pc \in {"commit", "respond", "done"} /\ calls # <<>>

Succeeded(k) == calls[k].outcome.kind = "response" /\ calls[k].outcome.status \in {200, 201, 404}

\* C1: a valid draw with qualified and disqualified entries ends in HTTP 200 with
\* success = true, the two counts, and every disqualified entry in results with a
\* null rank.
C1_DisqualifiedDrawSucceeds ==
    (/\ Done
     /\ DrawComputed
     /\ CountStatus(scoredEntries, "disqualified") > 0
     /\ CountStatus(scoredEntries, "qualified") > 0)
    => /\ Resp.status = 200
       /\ Resp.success
       /\ Val(Resp.draw).qualifiedEntries = CountStatus(scoredEntries, "qualified")
       /\ Val(Resp.draw).disqualifiedEntries = CountStatus(scoredEntries, "disqualified")
       /\ \A k \in 1..Len(scoredEntries) :
             scoredEntries[k].status = "disqualified"
             => \E j \in 1..Len(Val(Resp.results)) :
                   /\ Val(Resp.results)[j].entryCode = scoredEntries[k].entryCode
                   /\ Val(Resp.results)[j].rank = Null

\* C2: a valid draw whose entries are all disqualified still ends in a success
\* response, with a null winner in draw and in the bundle's results.
C2_AllDisqualifiedSucceeds ==
    (/\ Done
     /\ DrawComputed
     /\ CountStatus(scoredEntries, "qualified") = 0)
    => /\ Resp.status = 200
       /\ Resp.success
       /\ Val(Resp.draw).winner = Null
       /\ Val(Resp.audit).bundle.results.winner = Null

\* C3: once publishToGitHub was called, whatever stage of it failed, the handler
\* answers HTTP 200 with success = true, the draw summary, the audit bundle, and
\* github.published = false with the error message and a boolean retryable.
C3_GracefulDegradation ==
    (Done /\ PublicationInvoked)
    => /\ Resp.status = 200
       /\ Resp.success
       /\ Resp.draw # Null
       /\ Resp.results = Some(results)
       /\ Val(Resp.audit).bundle = Val(auditBundle)
       /\ Val(Resp.audit).bundleHash = Val(bundleHash)
       /\ ~Val(Resp.audit).github.published
          => /\ Val(Resp.audit).github.error # Null
             /\ Val(Resp.audit).github.retryable \in {Some(TRUE), Some(FALSE)}

\* C3 witness: with a credential, the existence check threw and the publication
\* failed, and the response is the 200 with published = false.
C3_Witness ==
    /\ Done
    /\ PublicationInvoked
    /\ env.GITHUB_TOKEN
    /\ \E k \in CallsOf("check") : calls[k].outcome.kind = "throw"
    /\ Resp.status = 200
    /\ ~Val(Resp.audit).github.published
    /\ Val(Resp.audit).github.error = Some("date is not defined")

\* C4: with competition metadata, a credential, and every network call
\* succeeding, the publication sends the existence check, then the commit, then
\* (mode = live) the release, and the response has published = true with the
\* commit URL, the commit SHA and the file path.
C4_HappyPathPublished ==
    (/\ Done
     /\ PublicationInvoked
     /\ env.GITHUB_TOKEN
     /\ \A k \in 1..Len(calls) : Succeeded(k)
     /\ store = Some([commit |-> "accept", release |-> "accept"]))
    => /\ CallsOf("commit") # {}
       /\ Val(body.competition).mode = Live => CallsOf("release") # {}
       /\ Val(Resp.audit).github.published
       /\ Val(Resp.audit).github.commitUrl # Null
       /\ Val(Resp.audit).github.commitSha # Null
       /\ Val(Resp.audit).github.filePath # Null

\* C5: when the existence check found a document, the write carries its sha; when
\* it found none, the write is sent without a sha; either way a write is sent.
C5_UpsertCarriesSha ==
    (Done /\ CheckFinished)
    => \E k \in CallsOf("commit") : calls[k].sha = existingFileSha

\* C6: no commit request before the existence check has finished, and a release
\* request only for mode = live and only after a commit that succeeded.
C6_SequentialCalls ==
    /\ \A k \in CallsOf("commit") :
          /\ \E j \in CallsOf("check") : j < k
          /\ \A j \in CallsOf("check") : j < k
    /\ \A k \in CallsOf("release") :
          /\ Val(body.competition).mode = Live
          /\ \E j \in CallsOf("commit") : j < k /\ Succeeded(j)
    /\ pc \in {"check", "backoff"} => CallsOf("commit") = {} /\ CallsOf("release") = {}

\* C6 witness: a live draw whose existence check finished and whose commit
\* failed; the publication is over and no release request was sent.
C6_Witness ==
    /\ Done
    /\ PublicationInvoked
    /\ Val(body.competition).mode = Live
    /\ CheckFinished
    /\ ~Val(githubResult).published
    /\ CallsOf("release") = {}

Transient(outcome) ==
    \/ outcome.kind = "response" /\ outcome.status \in {429, 502, 503, 504}
    \/ outcome.kind = "throw" /\ outcome.message = "The operation was aborted due to timeout"

\* C8: a failed attempt is followed by another attempt exactly when the failure
\* is transient and the attempts are not used up.
C8_RetryIffTransient ==
    CheckFinished
    => \A k \in CallsOf("check") :
          ~ResponseOk(calls[k].outcome)
          => ((k + 1 \in CallsOf("check"))
                <=> (Transient(calls[k].outcome) /\ calls[k].attempt < DefaultMaxRetries - 1))

\* C9: when every attempt fails with a retryable error, there are three retries
\* after the first attempt, with sleeps of 1s, 2s and 4s, before the error is
\* rethrown.
C9_ThreeRetriesOneTwoFour ==
    (/\ CheckFinished
     /\ \A k \in CallsOf("check") :
           calls[k].outcome.kind = "throw" /\ isRetryableError(calls[k].outcome.message))
    => /\ Cardinality(CallsOf("check")) = 1 + DefaultMaxRetries
       /\ sleeps = <<1000, 2000, 4000>>

\* C10: with competition metadata and no GITHUB_TOKEN, the publication ends at
\* once with published = false and retryable = false, and no request is sent to
\* the store and no backoff sleep is made.
C10_NoTokenNoCalls ==
    (body.competition # Null /\ ~env.GITHUB_TOKEN)
    => /\ calls = <<>>
       /\ sleeps = <<>>
       /\ pc \notin {"check", "backoff", "commit"}
       /\ auditBundle # Null => Val(auditBundle).publication = Null
       /\ githubResult # Null
          => /\ ~Val(githubResult).published
             /\ Val(githubResult).retryable = Some(FALSE)
             /\ Val(githubResult).error = Some("GitHub token not configured")
       /\ (Done /\ bundleHash # Null)
          => githubResult # Null /\ Val(Resp.audit).github = Val(githubResult)

\* C10 witness: such a draw is answered, with the token failure in the response.
C10_Witness ==
    /\ Done
    /\ body.competition # Null
    /\ ~env.GITHUB_TOKEN
    /\ Resp.status = 200
    /\ Val(Resp.audit).github.retryable = Some(FALSE)
    /\ ~Val(Resp.audit).github.published

\* publishToGitHub was entered: its token test, its requests or its error show
PublicationAttempted ==
    \/ calls # <<>>
    \/ sleeps # <<>>
    \/ pc \in {"check", "backoff", "commit"}
    \/ auditBundle # Null /\ Val(auditBundle).publication # Null
    \/ githubResult # Null /\ Val(githubResult).error # Null

\* C11: a draw without competition metadata never enters publishToGitHub: no
\* request goes to the store, the bundle gets no publication fields, and the
\* response has github.published = false with the reason; the publication is
\* attempted only for a request that has the metadata.
C11_NoMetadataSkipsPublication ==
    /\ PublicationAttempted => body.competition # Null
    /\ (body.competition = Null /\ githubResult # Null)
       => Val(githubResult) = [NoGithubResult EXCEPT
                                  !.reason = Some("No competition metadata provided")]
    /\ (body.competition = Null /\ Done /\ bundleHash # Null)
       => /\ Resp.status = 200
          /\ ~Val(Resp.audit).github.published
          /\ Val(Resp.audit).github.reason = Some("No competition metadata provided")
          /\ Val(Resp.audit).bundle.publication = Null

\* C11 witness: a draw without metadata, with a credential configured, answered
\* 200 with published = false and no request sent.
C11_Witness ==
    /\ Done
    /\ body.competition = Null
    /\ env.GITHUB_TOKEN
    /\ Resp.status = 200
    /\ ~Val(Resp.audit).github.published
    /\ calls = <<>>

\* the draw as a function of the randomness and the entries
DrawOf(rnd, entries) ==
    LET sd == computeSHA256Hex(rnd)
        scored == calculateEntryScores(sd, processEntries(entries))
    IN  [seed |-> sd, scoredEntries |-> scored, results |-> AllResults(scored)]

\* the scores are collected: Promise.all of calculateEntryScores has resolved
ScoresCollected == DrawComputed /\ pc \notin {"scoring"}

\* C12: the seed, every entry's score and scoreHex, and the ranking are a function
\* of the randomness and the entries alone: whatever the clock read, in whatever
\* order the per-entry hashes completed, and however the publication went, they
\* are the ones DrawOf gives, in the handler's state and in its 200 response.
C12_Determinism ==
    ScoresCollected
    => LET draw == DrawOf(randomness, body.entries)
       IN  /\ seed = Some(draw.seed)
           /\ scoredEntries = draw.scoredEntries
           /\ results = draw.results
           /\ (Done /\ Resp.status = 200)
              => /\ Resp.results = Some(draw.results)
                 /\ Val(Resp.audit).bundle.results.seed = draw.seed
                 /\ Val(Resp.audit).bundle.results.fullRanking = draw.results

\* C12 witness: a draw of two entries made at the later instant, whose
\* publication was attempted and failed, answered with the results.
C12_Witness ==
    /\ Done
    /\ Resp.status = 200
    /\ Len(Val(Resp.results)) = 2
    /\ drawTimestamp = Some("2025-02-01T00:00:00.000Z")
    /\ Val(Resp.audit).github.error # Null
    /\ calls # <<>>

\* the digest of the bundle this draw would have made at instant t
BundleHashAt(t) ==
    computeSHA256Hex(BundleJson(generateAuditBundle(results, Val(seed), body.drawRound, body.competition,
        randomness, body.randomnessSource, t, randomnessFetchedByWorker)))

RankOf(res, code) == res[CHOOSE k \in 1..Len(res) : res[k].entryCode = code].rank

Ranked == pc = "ranked"

\* C14: ranking any permutation of the same scored entries gives every entry the
\* rank it has here, and so the same winner.
C14_OrderIndependence ==
    Ranked
    => \A p \in Permutations(1..Len(scoredEntries)) :
          LET permuted == [k \in 1..Len(scoredEntries) |-> scoredEntries[p[k]]]
              other == AllResults(permuted)
          IN  /\ \A k \in 1..Len(scoredEntries) :
                    RankOf(other, scoredEntries[k].entryCode)
                        = RankOf(results, scoredEntries[k].entryCode)
              /\ Winner(other) = Winner(results)

\* C14 witness: three qualified entries, two of them with equal scores, ranked.
C14_Witness ==
    /\ Ranked
    /\ Len(scoredEntries) = 3
    /\ \A k \in 1..3 : scoredEntries[k].status = "qualified"
    /\ scoredEntries[1].score.value = scoredEntries[3].score.value
    /\ Winner(results) # Null

\* the indexes of the results that carry a rank
RankedIndexes == {k \in 1..Len(results) : results[k].rank # Null}

\* C15: the K qualified entries carry the ranks 1..K, each once, and an entry
\* with a smaller rank never has a smaller score than one with a larger rank.
C15_RankDensityAndOrder ==
    Ranked
    => /\ Cardinality(RankedIndexes) = CountStatus(scoredEntries, "qualified")
       /\ {Val(results[k].rank) : k \in RankedIndexes}
              = 1..CountStatus(scoredEntries, "qualified")
       /\ \A k \in RankedIndexes : results[k].status = "qualified"
       /\ \A i, j \in RankedIndexes :
             Val(results[i].rank) < Val(results[j].rank)
             => results[i].score.value >= results[j].score.value

\* C15 witness: three qualified entries with two different scores, ranked.
C15_Witness ==
    /\ Ranked
    /\ CountStatus(scoredEntries, "qualified") = 3
    /\ \E i, j \in 1..3 : scoredEntries[i].score.value # scoredEntries[j].score.value
    /\ {Val(results[k].rank) : k \in 1..3} = {1, 2, 3}

\* code-unit lexicographic order of two strings
RECURSIVE LexLess(_, _)
LexLess(x, y) ==
    IF y = <<>> THEN FALSE
    ELSE IF x = <<>> THEN TRUE
    ELSE IF CharCode(Head(x)) # CharCode(Head(y)) THEN CharCode(Head(x)) < CharCode(Head(y))
    ELSE LexLess(Tail(x), Tail(y))

\* C16: of two qualified entries with equal scores, the one whose entry code is
\* the smaller in ascending lexicographic order has the smaller rank.
C16_TieBreakLexicographic ==
    Ranked
    => \A i, j \in RankedIndexes :
          (/\ results[i].score.value = results[j].score.value
           /\ LexLess(results[i].entryCode, results[j].entryCode))
          => Val(results[i].rank) < Val(results[j].rank)

\* the record a list of result records holds for an entry code
RecordOf(res, code) == res[CHOOSE k \in 1..Len(res) : res[k].entryCode = code]

AnsweredIncorrectly(entry) ==
    entry.quiz # Null /\ Val(entry.quiz).answerCorrect = Some(FALSE)

HasDuplicateCode(entries) ==
    \E i, j \in 1..Len(entries) :
        i < j /\ Trim(entries[i].entryCode) = Trim(entries[j].entryCode)

\* the trimmed code of the first entry that repeats an earlier one
FirstDuplicate(entries) ==
    LET j == CHOOSE j \in 1..Len(entries) :
                /\ \E i \in 1..(j - 1) :
                      Trim(entries[i].entryCode) = Trim(entries[j].entryCode)
                /\ \A m \in 1..(j - 1) : \A i \in 1..(m - 1) :
                      Trim(entries[i].entryCode) # Trim(entries[m].entryCode)
    IN  Trim(entries[j].entryCode)

NoHashComputed ==
    /\ seed = Null
    /\ scoreJobs = <<>>
    /\ scoredEntries = <<>>
    /\ results = <<>>
    /\ bundleHash = Null

CodeCounts(list) ==
    [c \in {list[k].entryCode : k \in 1..Len(list)} |->
        Cardinality({k \in 1..Len(list) : list[k].entryCode = c})]

\* the draw was assembled: allResults and the audit bundle exist
DrawAssembled == auditBundle # Null

\* C19: once a draw is assembled, results and the bundle's entries.list hold
\* exactly one record per input entry, and the bundle's total is the sum of its
\* qualified and disqualified counts and the number of input entries; the 200
\* response carries the same.
C19_NoEntryDropped ==
    DrawAssembled
    => /\ CodeCounts(results) = CodeCounts(body.entries)
       /\ CodeCounts(Val(auditBundle).entries.list) = CodeCounts(body.entries)
       /\ Val(auditBundle).entries.total = Len(body.entries)
       /\ Val(auditBundle).entries.total
              = Val(auditBundle).entries.qualified + Val(auditBundle).entries.disqualified
       /\ (Done /\ Resp.status = 200)
          => /\ CodeCounts(Val(Resp.results)) = CodeCounts(body.entries)
             /\ CodeCounts(Val(Resp.audit).bundle.entries.list) = CodeCounts(body.entries)
             /\ Val(Resp.draw).totalEntries = Len(body.entries)
             /\ Val(Resp.draw).totalEntries
                    = Val(Resp.draw).qualifiedEntries + Val(Resp.draw).disqualifiedEntries

\* C19 witness: a draw of two entries answered 200 with two results.
C19_Witness ==
    /\ Done
    /\ Resp.status = 200
    /\ Len(body.entries) = 2
    /\ Len(Val(Resp.results)) = 2
    /\ Val(Resp.draw).totalEntries = 2

\* haystack.includes(needle)
IsSubstring(needle, haystack) ==
    \E k \in 0..(Len(haystack) - Len(needle)) :
        SubSeq(haystack, k + 1, k + Len(needle)) = needle

\* a record made for an entry carries the digest of the entry's lower-cased,
\* trimmed address and never the address
CarriesHashOnly(r, entry) ==
    IF entry.email = Null THEN r.emailHash = Null
    ELSE /\ r.emailHash = Some(computeSHA256Hex(Trim(toLowerCase(Val(entry.email)))))
         /\ r.emailHash # entry.email
         /\ r.entryCode # Val(entry.email)

\* the input entry with an entry code
EntryOf(code) == body.entries[CHOOSE k \in 1..Len(body.entries) : body.entries[k].entryCode = code]

\* C20: no record of the scored entries, of the results, of the audit bundle or
\* of the response holds an entry's address, and the serialized bundle does not
\* contain it; the records hold the digest of the lower-cased, trimmed address.
C20_EmailPrivacy ==
    /\ \A k \in 1..Len(scoredEntries) :
          CarriesHashOnly(scoredEntries[k], EntryOf(scoredEntries[k].entryCode))
    /\ DrawAssembled
       => /\ \A k \in 1..Len(results) :
                /\ CarriesHashOnly(results[k], EntryOf(results[k].entryCode))
                /\ CarriesHashOnly(Val(auditBundle).entries.list[k],
                                   EntryOf(results[k].entryCode))
          /\ \A k \in 1..Len(body.entries) :
                body.entries[k].email # Null
                => ~IsSubstring(Val(body.entries[k].email),
                                BundleJson([Val(auditBundle) EXCEPT !.bundleHash = Null,
                                                                    !.publication = Null]))
    /\ (Done /\ Resp.status = 200)
       => \A k \in 1..Len(Val(Resp.results)) :
             /\ CarriesHashOnly(Val(Resp.results)[k],
                                EntryOf(Val(Resp.results)[k].entryCode))
             /\ CarriesHashOnly(Val(Resp.audit).bundle.results.fullRanking[k],
                                EntryOf(Val(Resp.results)[k].entryCode))

\* C20 witness: a draw with an entry that gave an address, answered 200 with the
\* digest of the address in the entry's result.
C20_Witness ==
    /\ Done
    /\ Resp.status = 200
    /\ \E k \in 1..Len(body.entries) :
          /\ body.entries[k].email = Some(<<" ", "B", "c">>)
          /\ RecordOf(Val(Resp.results), body.entries[k].entryCode).emailHash
                 = Some(computeSHA256Hex(<<"b", "c">>))

\* the bundle without the fields publishToGitHub attaches
StrippedBundle(bundle) == [bundle EXCEPT !.bundleHash = Null, !.publication = Null]

\* C21: the bundle hash is the digest of the bundle without its bundleHash and
\* publication fields, in every state from its computation on, whatever the
\* publication attached to the bundle and however it ended; stripping the two
\* fields from the bundle of the 200 response and hashing it gives
\* audit.bundleHash.
C21_HashOfStrippedBundle ==
    /\ bundleHash # Null
       => bundleHash = Some(computeSHA256Hex(BundleJson(StrippedBundle(Val(auditBundle)))))
    /\ (Done /\ Resp.status = 200)
       => Val(Resp.audit).bundleHash
             = computeSHA256Hex(BundleJson(StrippedBundle(Val(Resp.audit).bundle)))

\* C21 witness: a 200 response whose bundle carries a publication stamped at a
\* later instant than the draw, and whose stripped bundle hashes to bundleHash.
C21_Witness ==
    /\ Done
    /\ Resp.status = 200
    /\ Val(Resp.audit).bundle.publication # Null
    /\ Val(Val(Resp.audit).bundle.publication).publishedAt # Val(drawTimestamp)
    /\ Val(Resp.audit).bundle.bundleHash = Some(Val(Resp.audit).bundleHash)
    /\ Val(Resp.audit).bundleHash # computeSHA256Hex(BundleJson(Val(Resp.audit).bundle))

\* the bundle the handler builds for this request with another randomness and
\* other entries, at the same instant
BundleFor(rnd, entries) ==
    LET nb == NormalizedBody([body EXCEPT !.randomness = rnd, !.entries = entries])
        d == DrawOf(nb.randomness, nb.entries)
    IN  generateAuditBundle(d.results, d.seed, nb.drawRound, nb.competition, nb.randomness,
                            nb.randomnessSource, Val(drawTimestamp), randomnessFetchedByWorker)

\* the requests that differ from this one in the data of one entry
OneEntryChanged ==
    {alt \in {[body.entries EXCEPT ![k] = e] : k \in 1..Len(body.entries), e \in DrawEntries} :
        alt # body.entries /\ ValidateEntries(alt) = Null}

\* the requests that differ from this one in the randomness
RandomnessChanged == {<<"a", "f", " ">>, <<"b", "e">>, <<"a", "f">>} \ {body.randomness}

\* what the handler keeps of an address and of a quiz
KeptEmail(entry) ==
    IF entry.email = Null \/ Val(entry.email) = <<>> THEN Null
    ELSE Some(Trim(toLowerCase(Val(entry.email))))

KeptQuiz(entry) ==
    IF entry.quiz = Null THEN "none"
    ELSE IF Val(entry.quiz).answerCorrect = Some(FALSE) THEN "incorrect" ELSE "correct"

\* two entry lists of the same length differ in what the handler keeps of them
KeptDiffers(a, b) ==
    \E k \in 1..Len(a) :
        \/ Trim(a[k].entryCode) # Trim(b[k].entryCode)
        \/ KeptEmail(a[k]) # KeptEmail(b[k])
        \/ KeptQuiz(a[k]) # KeptQuiz(b[k])

DrawNotStarted ==
    /\ NoHashComputed
    /\ auditBundle = Null
    /\ githubResult = Null
    /\ calls = <<>>
    /\ sleeps = <<>>

\* C23: a request answered 400 or 503 has no seed, no email hash, no score, no
\* bundle and no publication request; a request that fails validation never
\* leaves the validation step but for its answer; and a seed is only ever
\* computed from randomness that is there, which for an auto-fetch is the
\* beacon's, with its round.
C23_ErrorsAbortBeforeDraw ==
    /\ (Done /\ Resp.status \in {400, 503}) => DrawNotStarted
    /\ (pc = "validate" /\ (ValidateRandomness(body) # Null \/ ValidateEntries(body.entries) # Null))
       => DrawNotStarted
    /\ pc \in {"validate", "randomness"} => DrawNotStarted
    /\ seed # Null
       => /\ randomness # <<>>
          /\ isAutoFetch(body)
             => /\ randomnessFetchedByWorker
                /\ Val(body.randomnessSource).round # Null
    /\ (Done /\ ~DrawNotStarted) => Resp.status \in {200, 500}

\* C23 witness: an auto-fetch request whose beacon failed, answered 503 with
\* nothing computed.
C23_Witness ==
    /\ Done
    /\ Resp.status = 503
    /\ isAutoFetch(body)
    /\ Len(body.entries) > 0
    /\ DrawNotStarted

\* the request asks for the beacon's randomness
AsksAutoFetch == isAutoFetch(body)

\* the reasons of a rejection that name the randomness field
RandomnessReasons ==
    {"Field 'randomness' is required and must be a string (or use randomnessSource.autoFetch)",
     "Field 'randomness' is required when not using autoFetch",
     "Field 'randomness' must be between 1 and 1024 characters",
     "Field 'randomness' must be a valid hexadecimal string"}

C25_DrawRoundFromBeacon ==
    (Done /\ Resp.status = 200 /\ randomnessFetchedByWorker)
    => /\ Val(body.randomnessSource).round # Null
       /\ Val(Resp.metadata).drawRound = Val(Val(body.randomnessSource).round)

\* text starts with prefix
StartsWith(text, prefix) ==
    Len(text) >= Len(prefix) /\ SubSeq(text, 1, Len(prefix)) = prefix

\* text ends with suffix
EndsWith(text, suffix) ==
    Len(text) >= Len(suffix) /\ SubSeq(text, Len(text) - Len(suffix) + 1, Len(text)) = suffix

\* the competitions validateInput lets through, as it leaves them
ValidCompetitions ==
    {Val(NormalizedCompetition(Some(c))) : c \in {d \in PathCompetitions : ValidateCompetition(Some(d)) = Null}}

\* the destination path publishToGitHub wrote into the bundle
PublishedPath == Val(Val(auditBundle).publication).filePath

EveryCallAnswered == []<>(pc # "check")

CheckFailed ==
    /\ CheckFinished
    /\ ~ResponseOk(calls[Len(SelectSeq(calls, LAMBDA c : c.kind = "check"))].outcome)

\* C28: after an existence check that failed in any way (a response that is not
\* OK, or an error thrown, at once or after its retries), the write is sent,
\* without a sha, and the publication did not fail before the write.
C28_FailedCheckStillCommits ==
    (Done /\ CheckFailed)
    => /\ existingFileSha = Null
       /\ \E k \in CallsOf("commit") : calls[k].sha = Null

\* the stages of the publication, in their order
StageOf(kind) == CASE kind = "check" -> 1 [] kind = "commit" -> 2 [] kind = "release" -> 3

\* the terminal outcomes of a publication that hold of a result
OutcomesOf(result) ==
    {o \in {"skipped", "published", "failed"} :
        \/ o = "skipped" /\ result.reason # Null
        \/ o = "published" /\ result.published
        \/ o = "failed" /\ result.error # Null}

\* the requests and sleeps of the publication stay within their bounds
CallsBounded ==
    /\ \A kind \in {"check", "commit", "release"} : Cardinality(CallsOf(kind)) <= DefaultMaxRetries
    /\ Len(calls) <= 3 * DefaultMaxRetries
    /\ Len(sleeps) <= DefaultMaxRetries - 1
    /\ \A k \in 1..Len(calls) : calls[k].attempt \in 0..(DefaultMaxRetries - 1)
    /\ \A j, k \in 1..Len(calls) :
          j < k => /\ StageOf(calls[j].kind) <= StageOf(calls[k].kind)
                   /\ calls[j].kind = calls[k].kind => calls[j].attempt < calls[k].attempt
    /\ githubResult # Null => Cardinality(OutcomesOf(Val(githubResult))) = 1
    /\ (calls # <<>> \/ sleeps # <<>>) => env.GITHUB_TOKEN /\ body.competition # Null

PublishedWithCredential == body.competition # Null /\ env.GITHUB_TOKEN

\* the bundle as generateAuditBundle built it, before it was hashed
BundleAsBuilt ==
    generateAuditBundle(results, Val(seed), body.drawRound, body.competition, randomness,
                        body.randomnessSource, Val(drawTimestamp), randomnessFetchedByWorker)

\* C30: the bundle of a 200 response carries bundleHash and publication
\* (publishedAt, filePath) exactly when the draw has competition metadata and
\* the worker a credential, also when the publication then failed; the rest of
\* the bundle is as it was built, and without metadata or credential the whole
\* bundle is.
C30_BundleStampedIffCredential ==
    (Done /\ Resp.status = 200)
    => LET bundle == Val(Resp.audit).bundle
       IN  /\ bundle.bundleHash # Null <=> PublishedWithCredential
           /\ bundle.publication # Null <=> PublishedWithCredential
           /\ PublishedWithCredential
              => /\ bundle.bundleHash = Some(Val(Resp.audit).bundleHash)
                 /\ Val(bundle.publication).publishedAt \in TimesFrom(Val(drawTimestamp))
                 /\ Val(bundle.publication).filePath
                        = FilePath(Val(body.competition), Val(drawTimestamp))
                 /\ bundle # BundleAsBuilt
           /\ StrippedBundle(bundle) = BundleAsBuilt
           /\ ~PublishedWithCredential => bundle = BundleAsBuilt

\* C30 witness: a 200 response of a draw with metadata and credential whose
\* publication failed and whose bundle carries the two fields.
C30_Witness ==
    /\ Done
    /\ Resp.status = 200
    /\ PublishedWithCredential
    /\ ~Val(Resp.audit).github.published
    /\ Val(Resp.audit).bundle.bundleHash = bundleHash
    /\ Val(Resp.audit).bundle.publication # Null

====
